---- MODULE Spec2Model ----
(***************************************************************************)
(* Request-admission layer of Echo: the token-bucket RateLimitMiddleware   *)
(* (src/app/middleware/rate_limit.py).                                     *)
(*                                                                         *)
(* Time: the clock (time.time()) is counted in ticks, TicksPerSec ticks to *)
(* the second.  Tokens: real numbers in the code; here exact rationals,    *)
(* counted in units of 1/TokenUnit token with TokenUnit = 60*TicksPerSec,  *)
(* so that the refill of one tick, rate/TicksPerSec token, is exactly      *)
(* requests_per_minute units.  Floating-point rounding is not modelled.    *)
(*                                                                         *)
(* Scheduling: dispatch is a coroutine on one asyncio event loop; the only *)
(* suspension point is `await call_next(request)`.  The steps of one       *)
(* request before that point are separate actions (the clock may advance   *)
(* between them) but no other coroutine runs in between.                   *)
(*                                                                         *)
(* population is the set of client identities that send requests in a run; *)
(* log is a history variable: per identity, what each _check_rate_limit    *)
(* call read, computed and returned, in the order of the calls.            *)
(*                                                                         *)
(* Beside the rate limiter (Spec, SpecAnyConfig) the module holds three     *)
(* components, each with a specification of its own in which the others    *)
(* rest: _get_client_ip (SpecIdentity, variable ident), APIKeyAuthMiddleware*)
(* of src/app/middleware/auth.py (SpecAuth, variable auth) and the         *)
(* application of src/app/main.py (SpecApp, variable app).  The flow       *)
(* s3_to_redshift_pipeline of src/orchestration/flows is a fourth          *)
(* (SpecFlow, variable flow).                                              *)
(***************************************************************************)
EXTENDS Integers, Sequences, FiniteSets, TLC

\* ---- bounds of the model ----
MaxTime == 4
MaxReqs == 5
MaxBurst == 2
MaxInFlight == 2
TicksPerSec == 2
MaxHeaderLen == 3
MaxPathLen == 4
MaxFiles == 3

\* ---- program constants ----
SecondsPerMinute == 60

Identities == {"10.0.0.1", "10.0.0.2"}
SingleClient == {"10.0.0.1"}
RpmValues == {60, 100, 120}
BurstValues == 1..MaxBurst
DownstreamStatuses == {200, 500}

TokenUnit == SecondsPerMinute * TicksPerSec

Min(a, b) == IF a <= b THEN a ELSE b

VARIABLES
  clock,                \* time.time(), in ticks
  requests_per_minute,  \* self.requests_per_minute
  burst_size,           \* self.burst_size
  population,           \* the client identities that send requests
  clients,              \* self._clients: ip -> (last_request_time, tokens)
  reqs,                 \* the dispatch() coroutines in flight, by slot
  log,                  \* history: per ip, the _check_rate_limit calls decided so far
  ident,                \* _get_client_ip: the request at hand and the identity derived
  auth,                 \* APIKeyAuthMiddleware: its settings and the request in dispatch
  app,                  \* app.main: the middleware stack and the request passing through it
  flow                  \* s3_to_redshift_pipeline: its position, arguments and results

limiterVars == <<clock, requests_per_minute, burst_size, population, clients, reqs, log>>

\* the variables of the components other than the rate limiter
sideVars == <<ident, auth, app, flow>>

vars == <<clock, requests_per_minute, burst_size, population, clients, reqs, log,
          ident, auth, app, flow>>

Slots == 1..MaxInFlight

\* int(x) of a non-negative rational num/den: truncation
IntTrunc(num, den) == num \div den

\* int(time.time())
IntNow == IntTrunc(clock, TicksPerSec)

NoHeaders == [retry_after |-> -1, limit |-> -1, remaining |-> -1, reset |-> -1]

IdleSlot ==
  [pc |-> "idle", ip |-> "", n |-> 0, current_time |-> 0,
   last_request_time |-> 0, old_tokens |-> 0, tokens |-> 0, fresh |-> FALSE,
   is_allowed |-> FALSE, tokens_remaining |-> 0, retry_after |-> 0,
   calls |-> 0, status |-> 0, now |-> 0, headers |-> NoHeaders,
   raised |-> FALSE]

\* dispatch() entered for a request of client_ip; current_time = time.time()
NewRequest(ip) == [IdleSlot EXCEPT !.pc = "read", !.ip = ip, !.current_time = clock]

\* variant: preemptive scheduling, a request is taken up at any point
LoopPreempted == \A s \in Slots : reqs[s].pc # "done"

\* No coroutine is inside a synchronous stretch of dispatch: the event loop
\* runs one coroutine at a time and switches only at an await.
LoopFree == \A s \in Slots : reqs[s].pc \notin {"read", "decide", "done"}

RECURSIVE SumLen(_, _)
SumLen(f, S) ==
  IF S = {} THEN 0
  ELSE LET x == CHOOSE y \in S : TRUE IN Len(f[x]) + SumLen(f, S \ {x})

\* requests dispatched so far
Dispatched ==
  SumLen(log, Identities) + Cardinality({s \in Slots : reqs[s].pc \in {"read", "decide"}})

\* headers.get(name) and request.client: None, or the value
None == [present |-> FALSE, value |-> << >>]
Some(v) == [present |-> TRUE, value |-> v]

\* no request is in _get_client_ip
IdentIdle ==
  [pc |-> "idle", forwarded_for |-> None, client |-> None,
   client_ip |-> << >>, checks |-> 0]

\* the auth middleware as app.config sets it up, no request in dispatch
AuthIdle ==
  [require_auth |-> FALSE, api_key |-> "", pc |-> "idle", path |-> << >>,
   key |-> None, status |-> 0, error |-> "", detail |-> "", calls |-> 0]
\* the application as app.config sets it up (CORS_ORIGINS empty), no request
AppIdle ==
  [stack |-> << >>, pc |-> "idle", method |-> "", path |-> << >>,
   pos |-> 0, passed |-> << >>, status |-> 0]

\* s3_to_redshift_pipeline is not running
FlowIdle ==
  [pc |-> "idle", validate_data |-> TRUE, archive_after_load |-> TRUE,
   run_dbt_models |-> TRUE, files |-> 0, file |-> 0,
   files_processed |-> 0, files_failed |-> 0, validation_passed |-> TRUE,
   dbt_run |-> FALSE, errors |-> 0, success |-> FALSE]

\* the other components at rest
SideIdle ==
  /\ ident = IdentIdle
  /\ auth = AuthIdle
  /\ app = AppIdle
  /\ flow = FlowIdle

Init ==
  /\ clock = 0
  /\ requests_per_minute \in RpmValues
  /\ burst_size \in BurstValues
  /\ population = SingleClient
  /\ clients = << >>
  /\ reqs = [s \in Slots |-> IdleSlot]
  /\ log = [ip \in Identities |-> << >>]
  /\ SideIdle

\* The clock advances.
Tick ==
  /\ clock < MaxTime
  /\ \A s \in Slots : reqs[s].pc # "done"
  /\ clock' = clock + 1
  /\ UNCHANGED <<sideVars, requests_per_minute, burst_size, population, clients, reqs, log>>

\* dispatch() is entered: client_ip is derived and _check_rate_limit reads the clock.
Dispatch(s, ip) ==
  /\ LoopFree
  /\ Dispatched < MaxReqs
  /\ ip \in population
  /\ reqs[s].pc = "idle"
  /\ \A s2 \in Slots : s2 < s => reqs[s2].pc # "idle"
  /\ reqs' = [reqs EXCEPT ![s] = NewRequest(ip)]
  /\ UNCHANGED <<sideVars, clock, requests_per_minute, burst_size, population, clients, log>>

\* the default factory of self._clients
DefaultBucket == [last_request_time |-> clock, tokens |-> burst_size * TokenUnit]

\* self._clients[client_ip]: a missing key is inserted with the default
Lookup(ip) ==
  [x \in (DOMAIN clients) \cup {ip} |->
     IF x \in DOMAIN clients THEN clients[x] ELSE DefaultBucket]

\* variant: the refill is not clamped to burst_size
RefillUnclamped(tokens, time_passed) == tokens + time_passed * requests_per_minute

\* tokens = min(self.burst_size, tokens + time_passed * self.rate)
Refill(tokens, time_passed) ==
  Min(burst_size * TokenUnit, tokens + time_passed * requests_per_minute)

\* _check_rate_limit: get the client state and regenerate tokens
ReadBucket(s) ==
  /\ reqs[s].pc = "read"
  /\ LET ip == reqs[s].ip
         cl == Lookup(ip)
         b  == cl[ip]
         time_passed == reqs[s].current_time - b.last_request_time
     IN /\ clients' = cl
        /\ reqs' = [reqs EXCEPT ![s].pc = "decide",
                                ![s].fresh = (ip \notin DOMAIN clients),
                                ![s].last_request_time = b.last_request_time,
                                ![s].old_tokens = b.tokens,
                                ![s].tokens = Refill(b.tokens, time_passed)]
  /\ UNCHANGED <<sideVars, clock, requests_per_minute, burst_size, population, log>>

\* variant: the quotient is rounded up instead of truncated and incremented
RetryAfterCeil(tokens) ==
  LET num == TokenUnit - tokens
      den == TicksPerSec * requests_per_minute
  IN IF num % den = 0 THEN num \div den ELSE (num \div den) + 1

\* variant: the increment is missing
RetryAfterTrunc(tokens) ==
  IntTrunc(TokenUnit - tokens, TicksPerSec * requests_per_minute)

\* retry_after = int((1 - tokens) / self.rate) + 1
RetryAfter(tokens) ==
  IntTrunc(TokenUnit - tokens, TicksPerSec * requests_per_minute) + 1

\* variant: the comparison is with 0, a bucket below one token still admits
NotEnoughBelowZero(tokens) == tokens < 0

\* variant: the comparison is <=, a bucket of exactly one token rejects
NotEnoughAtOne(tokens) == tokens <= TokenUnit

\* tokens < 1
NotEnough(tokens) == tokens < TokenUnit

\* variant: X-RateLimit-Reset is computed from the clock in ticks
RejectHeadersRawClock(retry_after) ==
  [retry_after |-> retry_after, limit |-> requests_per_minute,
   remaining |-> 0, reset |-> clock + retry_after]

\* the headers of the 429 response of dispatch
RejectHeaders(retry_after) ==
  [retry_after |-> retry_after, limit |-> requests_per_minute,
   remaining |-> 0, reset |-> IntNow + retry_after]

\* variant: a rejection removes the bucket of the identity
ClientsDropOnReject(ip, current_time, tokens) ==
  [x \in (DOMAIN clients) \ {ip} |-> clients[x]]

\* variant: a rejection stamps the bucket with current_time and keeps its tokens
ClientsStampOnReject(ip, current_time, tokens) ==
  [clients EXCEPT ![ip].last_request_time = current_time]

\* variant: a rejection persists the refilled tokens and current_time
ClientsPersistOnReject(ip, current_time, tokens) ==
  [clients EXCEPT ![ip] = [last_request_time |-> current_time, tokens |-> tokens]]

\* `return False, 0, retry_after`: nothing is written to self._clients
ClientsAfterReject(ip, current_time, tokens) == clients

\* variant: one bucket for all: an admission writes every identity's entry
ClientsAllowShared(ip, current_time, tokens) ==
  [x \in DOMAIN clients |->
     [last_request_time |-> current_time, tokens |-> tokens - TokenUnit]]

\* variant: the time persisted is a later clock reading, not current_time
ClientsAllowLateStamp(ip, current_time, tokens) ==
  [clients EXCEPT ![ip] =
     [last_request_time |-> clock, tokens |-> tokens - TokenUnit]]

\* tokens -= 1; self._clients[client_ip] = (current_time, tokens)
ClientsAfterAllow(ip, current_time, tokens) ==
  [clients EXCEPT ![ip] =
     [last_request_time |-> current_time, tokens |-> tokens - TokenUnit]]

\* what the history keeps of a decided call
LogEntry(r, allowed, retry_after) ==
  [t |-> r.current_time, fresh |-> r.fresh, last |-> r.last_request_time,
   old |-> r.old_tokens, tokens |-> r.tokens,
   allowed |-> allowed, retry_after |-> retry_after]

\* self.rate = requests_per_minute / 60.0 is 0.0: dividing by it raises
\* ZeroDivisionError
RateIsZero == requests_per_minute = 0

\* dispatch ends by an exception that nothing in the middleware catches
Raise(s) == [IdleSlot EXCEPT !.pc = "done", !.ip = reqs[s].ip, !.raised = TRUE,
                             !.calls = reqs[s].calls, !.now = clock]

\* _check_rate_limit from `if tokens < 1` on, and dispatch up to its return or
\* to `await call_next(request)`.  The locals of _check_rate_limit are dead
\* once it has returned; the slot keeps what dispatch still holds.
Decide(s) ==
  /\ reqs[s].pc = "decide"
  /\ LET ip == reqs[s].ip
         tokens == reqs[s].tokens
     IN IF NotEnough(tokens) /\ RateIsZero
        THEN /\ reqs' = [reqs EXCEPT ![s] = Raise(s)]
             /\ UNCHANGED <<clients, log>>
        ELSE IF NotEnough(tokens)
        THEN /\ reqs' = [reqs EXCEPT ![s] =
                          [IdleSlot EXCEPT !.pc = "done", !.ip = ip,
                                           !.n = Len(log[ip]) + 1,
                                           !.is_allowed = FALSE,
                                           !.tokens_remaining = 0,
                                           !.retry_after = RetryAfter(tokens),
                                           !.status = 429,
                                           !.now = clock,
                                           !.headers = RejectHeaders(RetryAfter(tokens))]]
             /\ log' = [log EXCEPT ![ip] =
                          Append(@, LogEntry(reqs[s], FALSE, RetryAfter(tokens)))]
             /\ clients' = ClientsAfterReject(ip, reqs[s].current_time, tokens)
        ELSE /\ clients' = ClientsAfterAllow(ip, reqs[s].current_time, tokens)
             /\ reqs' = [reqs EXCEPT ![s] =
                          [IdleSlot EXCEPT !.pc = "downstream", !.ip = ip,
                                           !.n = Len(log[ip]) + 1,
                                           !.is_allowed = TRUE,
                                           !.tokens_remaining = tokens - TokenUnit,
                                           !.retry_after = 0,
                                           !.calls = reqs[s].calls + 1]]
             /\ log' = [log EXCEPT ![ip] = Append(@, LogEntry(reqs[s], TRUE, 0))]
  /\ UNCHANGED <<sideVars, clock, requests_per_minute, burst_size, population>>

\* variant: X-RateLimit-Remaining is read from the bucket when the downstream
\* stage has returned, not taken from this request's own consume
AllowHeadersFromBucket(tokens_remaining) ==
  [retry_after |-> -1, limit |-> requests_per_minute,
   remaining |-> IntTrunc(Min(burst_size * TokenUnit,
                              tokens_remaining + requests_per_minute), TokenUnit),
   reset |-> IntTrunc(clock * requests_per_minute
                        + (burst_size * TokenUnit - tokens_remaining),
                      TicksPerSec * requests_per_minute)]

\* the X-RateLimit-* headers added to the downstream response
AllowHeaders(tokens_remaining) ==
  [retry_after |-> -1, limit |-> requests_per_minute,
   remaining |-> IntTrunc(tokens_remaining, TokenUnit),
   reset |-> IntTrunc(clock * requests_per_minute
                        + (burst_size * TokenUnit - tokens_remaining),
                      TicksPerSec * requests_per_minute)]

\* call_next returns a response; dispatch decorates and returns it
CallNextReturns(s, status) ==
  /\ LoopFree
  /\ reqs[s].pc = "downstream"
  /\ IF RateIsZero
     THEN reqs' = [reqs EXCEPT ![s] = Raise(s)]
     ELSE reqs' = [reqs EXCEPT ![s].pc = "done",
                               ![s].status = status,
                               ![s].now = clock,
                               ![s].headers = AllowHeaders(reqs[s].tokens_remaining)]
  /\ UNCHANGED <<sideVars, clock, requests_per_minute, burst_size, population, clients, log>>

\* The host has the response of dispatch; the coroutine is gone.
Respond(s) ==
  /\ reqs[s].pc = "done"
  /\ reqs' = [reqs EXCEPT ![s] = IdleSlot]
  /\ UNCHANGED <<sideVars, clock, requests_per_minute, burst_size, population, clients, log>>

Next ==
  \/ Tick
  \/ \E s \in Slots, ip \in Identities : Dispatch(s, ip)
  \/ \E s \in Slots : ReadBucket(s)
  \/ \E s \in Slots : Decide(s)
  \/ \E s \in Slots, st \in DownstreamStatuses : CallNextReturns(s, st)
  \/ \E s \in Slots : Respond(s)

Spec == Init /\ [][Next]_vars

\* every configuration the constructor accepts without complaint: it checks
\* neither argument
InitAnyConfig ==
  /\ clock = 0
  /\ requests_per_minute \in {0} \cup RpmValues
  /\ burst_size \in 0..MaxBurst
  /\ population = SingleClient
  /\ clients = << >>
  /\ reqs = [s \in Slots |-> IdleSlot]
  /\ log = [ip \in Identities |-> << >>]
  /\ SideIdle

SpecAnyConfig == InitAnyConfig /\ [][Next]_vars

\* time.time() is the wall clock: an adjustment (NTP, an operator) sets it back
ClockStepsBack ==
  /\ clock > 0
  /\ \A s \in Slots : reqs[s].pc # "done"
  /\ clock' = clock - 1
  /\ UNCHANGED <<sideVars, requests_per_minute, burst_size, population, clients, reqs, log>>

NextWallClock ==
  \/ Next
  \/ ClockStepsBack

\* one identity, one rate, a bucket of one token
InitWallClock ==
  /\ clock = 0
  /\ requests_per_minute = 60
  /\ burst_size = 1
  /\ population = SingleClient
  /\ clients = << >>
  /\ reqs = [s \in Slots |-> IdleSlot]
  /\ log = [ip \in Identities |-> << >>]
  /\ SideIdle

SpecWallClock == InitWallClock /\ [][NextWallClock]_vars

\* two identities send requests; the clock starts two ticks short of MaxTime
InitTwo ==
  /\ clock = MaxTime - 2
  /\ requests_per_minute = 120
  /\ burst_size \in BurstValues
  /\ population = Identities
  /\ clients = << >>
  /\ reqs = [s \in Slots |-> IdleSlot]
  /\ log = [ip \in Identities |-> << >>]
  /\ SideIdle

SpecTwo == InitTwo /\ [][Next]_vars

\* ------------------------------------------------------------------------
\* _get_client_ip: the identity of a request
\* ------------------------------------------------------------------------
\* Strings are sequences of characters.

HeaderChars == {"1", "2", " ", ","}
HeaderValues == UNION {[1..k -> HeaderChars] : k \in 0..MaxHeaderLen}
PeerHosts == {<<"9">>}
Unknown == <<"u", "n", "k", "n", "o", "w", "n">>

\* the rate limiter at rest, with the settings of app.config
LimiterIdle ==
  /\ clock = 0
  /\ requests_per_minute = 100
  /\ burst_size = 20
  /\ population = {}
  /\ clients = << >>
  /\ reqs = [s \in Slots |-> IdleSlot]
  /\ log = [ip \in Identities |-> << >>]

\* v.split(",")[0]: what precedes the first comma, all of v if there is none
SplitFirst(v) ==
  LET commas == {i \in 1..Len(v) : v[i] = ","}
  IN IF commas = {} THEN v
     ELSE SubSeq(v, 1, (CHOOSE i \in commas : \A j \in commas : i <= j) - 1)

RECURSIVE LStrip(_)
LStrip(v) == IF v # << >> /\ Head(v) = " " THEN LStrip(Tail(v)) ELSE v

RECURSIVE RStrip(_)
RStrip(v) ==
  IF v # << >> /\ v[Len(v)] = " " THEN RStrip(SubSeq(v, 1, Len(v) - 1)) ELSE v

\* v.strip(): leading and trailing whitespace removed
Strip(v) == RStrip(LStrip(v))

\* variant: a present header is used even when its value is empty
GetClientIpIfPresent(forwarded_for, client) ==
  IF forwarded_for.present
  THEN Strip(SplitFirst(forwarded_for.value))
  ELSE IF client.present THEN client.value ELSE Unknown

\* _get_client_ip: `if forwarded_for:` is false for None and for ""
GetClientIp(forwarded_for, client) ==
  IF forwarded_for.present /\ forwarded_for.value # << >>
  THEN Strip(SplitFirst(forwarded_for.value))
  ELSE IF client.present THEN client.value ELSE Unknown

\* a request reaches dispatch
Arrive(forwarded_for, client) ==
  /\ ident.pc \in {"idle", "checked"}
  /\ ident' = [IdentIdle EXCEPT !.pc = "arrived",
                                !.forwarded_for = forwarded_for,
                                !.client = client]
  /\ UNCHANGED <<limiterVars, auth, app, flow>>

\* client_ip = self._get_client_ip(request)
DeriveIdentity ==
  /\ ident.pc = "arrived"
  /\ ident' = [ident EXCEPT !.pc = "derived",
                            !.client_ip = GetClientIp(ident.forwarded_for, ident.client)]
  /\ UNCHANGED <<limiterVars, auth, app, flow>>

\* self._check_rate_limit(client_ip) is called: nothing in dispatch precedes it
\* that returns or branches
CheckCalled ==
  /\ ident.pc = "derived"
  /\ ident' = [ident EXCEPT !.pc = "checked", !.checks = ident.checks + 1]
  /\ UNCHANGED <<limiterVars, auth, app, flow>>

InitIdentity ==
  /\ LimiterIdle
  /\ SideIdle

NextIdentity ==
  \/ \E x \in {None} \cup {Some(v) : v \in HeaderValues},
        c \in {None} \cup {Some(h) : h \in PeerHosts} : Arrive(x, c)
  \/ DeriveIdentity
  \/ CheckCalled

SpecIdentity == InitIdentity /\ [][NextIdentity]_vars

\* ------------------------------------------------------------------------
\* APIKeyAuthMiddleware (src/app/middleware/auth.py)
\* ------------------------------------------------------------------------
\* A path is a sequence of pieces, none of which is the beginning of another:
\* the sequences stand one to one for their concatenations, and one path
\* begins with another as strings exactly when it does so as sequences.

PathPieces == {"/", "api/v1/", "health", "docs", "redoc", "openapi.json", "x"}
Paths ==
  UNION {{p \in [1..k -> PathPieces] : p[1] = "/"} : k \in 1..MaxPathLen}

EXCLUDED_PATHS ==
  {<<"/">>, <<"/", "api/v1/", "health">>, <<"/", "api/v1/", "docs">>,
   <<"/", "api/v1/", "redoc">>, <<"/", "openapi.json">>}

EXCLUDED_PREFIXES == {<<"/", "api/v1/", "docs">>, <<"/", "api/v1/", "redoc">>}

\* the values of settings.API_KEY, of the api_key argument, of X-API-Key
SettingsKeys == {"", "k1"}
OverrideKeys == {None, Some(""), Some("k2")}
PresentedKeys == {None, Some(""), Some("k1"), Some("k2"), Some("k3")}

\* self._api_key = api_key or settings.API_KEY
ExpectedKey(api_key, settings_key) ==
  IF api_key.present /\ api_key.value # "" THEN api_key.value ELSE settings_key

\* path.startswith(prefix)
StartsWith(path, prefix) ==
  /\ Len(prefix) <= Len(path)
  /\ SubSeq(path, 1, Len(prefix)) = prefix

\* variant: only the exact paths are excluded
IsExcludedExact(path) == path \in EXCLUDED_PATHS

\* _is_excluded_path
IsExcludedPath(path) ==
  \/ path \in EXCLUDED_PATHS
  \/ \E prefix \in EXCLUDED_PREFIXES : StartsWith(path, prefix)

\* variant: `if api_key is None`, an empty header value counts as presented
KeyMissingIfNone(key) == ~key.present

\* `if not api_key`: the header is absent or its value is empty
KeyMissing(key) == ~key.present \/ key.value = ""

\* a request reaches dispatch of the auth middleware
AuthArrive ==
  /\ auth.pc = "idle"
  /\ \E path \in Paths, key \in PresentedKeys :
       auth' = [auth EXCEPT !.pc = "dispatch", !.path = path, !.key = key]
  /\ UNCHANGED <<limiterVars, ident, app, flow>>

\* variant: the auth switch is ignored
SkipsNever(require_auth) == FALSE

\* `if not self._require_auth`
Skips(require_auth) == ~require_auth

\* variant: call_next is awaited before the key is looked at
AuthDispatchCallsFirst ==
  /\ auth.pc = "dispatch"
  /\ IF Skips(auth.require_auth) \/ IsExcludedPath(auth.path)
     THEN auth' = [auth EXCEPT !.pc = "downstream", !.calls = auth.calls + 1]
     ELSE IF KeyMissing(auth.key)
     THEN auth' = [auth EXCEPT !.pc = "done", !.status = 401, !.calls = auth.calls + 1,
                               !.error = "Unauthorized",
                               !.detail = "Missing X-API-Key header"]
     ELSE IF auth.key.value # auth.api_key
     THEN auth' = [auth EXCEPT !.pc = "done", !.status = 403, !.calls = auth.calls + 1,
                               !.error = "Forbidden", !.detail = "Invalid API key"]
     ELSE auth' = [auth EXCEPT !.pc = "downstream", !.calls = auth.calls + 1]
  /\ UNCHANGED <<limiterVars, ident, app, flow>>

\* dispatch up to its return or to `await call_next(request)`
AuthDispatch ==
  /\ auth.pc = "dispatch"
  /\ IF Skips(auth.require_auth) \/ IsExcludedPath(auth.path)
     THEN auth' = [auth EXCEPT !.pc = "downstream", !.calls = auth.calls + 1]
     ELSE IF KeyMissing(auth.key)
     THEN auth' = [auth EXCEPT !.pc = "done", !.status = 401,
                               !.error = "Unauthorized",
                               !.detail = "Missing X-API-Key header"]
     ELSE IF auth.key.value # auth.api_key
     THEN auth' = [auth EXCEPT !.pc = "done", !.status = 403,
                               !.error = "Forbidden", !.detail = "Invalid API key"]
     ELSE auth' = [auth EXCEPT !.pc = "downstream", !.calls = auth.calls + 1]
  /\ UNCHANGED <<limiterVars, ident, app, flow>>

\* call_next returns the downstream response; dispatch returns it as it is
AuthCallNextReturns(status) ==
  /\ auth.pc = "downstream"
  /\ auth' = [auth EXCEPT !.pc = "done", !.status = status]
  /\ UNCHANGED <<limiterVars, ident, app, flow>>

\* the host has the response of dispatch
AuthRespond ==
  /\ auth.pc = "done"
  /\ auth' = [AuthIdle EXCEPT !.require_auth = auth.require_auth,
                              !.api_key = auth.api_key]
  /\ UNCHANGED <<limiterVars, ident, app, flow>>

InitAuth ==
  /\ LimiterIdle
  /\ ident = IdentIdle
  /\ app = AppIdle
  /\ flow = FlowIdle
  /\ \E r \in BOOLEAN, o \in OverrideKeys, k \in SettingsKeys :
       auth = [AuthIdle EXCEPT !.require_auth = r, !.api_key = ExpectedKey(o, k)]

NextAuth ==
  \/ AuthArrive
  \/ AuthDispatch
  \/ \E st \in DownstreamStatuses : AuthCallNextReturns(st)
  \/ AuthRespond

SpecAuth == InitAuth /\ [][NextAuth]_vars

\* ------------------------------------------------------------------------
\* The application (src/app/main.py): its middleware stack and routes
\* ------------------------------------------------------------------------

Methods == {"GET", "POST", "OPTIONS"}

\* the middleware main.py adds to the app, outermost first
BuildStack(cors_origins) == IF cors_origins # << >> THEN <<"CORSMiddleware">> ELSE << >>

\* settings.CORS_ORIGINS
CorsOrigins == {<< >>, <<"http://localhost:3000">>}

\* the server hands a request to the app
AppReceive ==
  /\ app.pc = "idle"
  /\ \E method \in Methods, path \in Paths :
       app' = [app EXCEPT !.pc = "stack", !.method = method, !.path = path, !.pos = 1]
  /\ UNCHANGED <<limiterVars, ident, auth, flow>>

\* the middleware at hand passes the request to the next one
AppStagePasses ==
  /\ app.pc = "stack"
  /\ app.pos <= Len(app.stack)
  /\ app' = [app EXCEPT !.pos = app.pos + 1,
                        !.passed = Append(app.passed, app.stack[app.pos])]
  /\ UNCHANGED <<limiterVars, ident, auth, flow>>

\* the middleware at hand answers the request itself (CORSMiddleware does so
\* for a preflight request)
AppStageAnswers(status) ==
  /\ app.pc = "stack"
  /\ app.pos <= Len(app.stack)
  /\ app.method = "OPTIONS"
  /\ app' = [app EXCEPT !.pc = "done", !.status = status]
  /\ UNCHANGED <<limiterVars, ident, auth, flow>>

\* the request is through the stack: the router calls the route handler
AppHandle ==
  /\ app.pc = "stack"
  /\ app.pos > Len(app.stack)
  /\ app' = [app EXCEPT !.pc = "handler"]
  /\ UNCHANGED <<limiterVars, ident, auth, flow>>

\* the handler returns
AppHandlerReturns(status) ==
  /\ app.pc = "handler"
  /\ app' = [app EXCEPT !.pc = "done", !.status = status]
  /\ UNCHANGED <<limiterVars, ident, auth, flow>>

\* the response is sent
AppRespond ==
  /\ app.pc = "done"
  /\ app' = [AppIdle EXCEPT !.stack = app.stack]
  /\ UNCHANGED <<limiterVars, ident, auth, flow>>

InitApp ==
  /\ LimiterIdle
  /\ ident = IdentIdle
  /\ auth = AuthIdle
  /\ flow = FlowIdle
  /\ \E c \in CorsOrigins : app = [AppIdle EXCEPT !.stack = BuildStack(c)]

NextApp ==
  \/ AppReceive
  \/ AppStagePasses
  \/ \E st \in {200, 400} : AppStageAnswers(st)
  \/ AppHandle
  \/ \E st \in DownstreamStatuses : AppHandlerReturns(st)
  \/ AppRespond

SpecApp == InitApp /\ [][NextApp]_vars

\* ------------------------------------------------------------------------
\* Properties
\* ------------------------------------------------------------------------

Max(a, b) == IF a >= b THEN a ELSE b

\* one token, the capacity of the bucket, and the refill of one second
OneToken == SecondsPerMinute * TicksPerSec
Capacity == burst_size * OneToken
PerSecond == requests_per_minute * TicksPerSec

\* the decided calls of ip
Calls(ip) == DOMAIN log[ip]
Admitted(ip) == {k \in Calls(ip) : log[ip][k].allowed}
Rejected(ip) == {k \in Calls(ip) : ~log[ip][k].allowed}

\* C1: the token count stored in every bucket is within 0..burst_size after
\* every sequence of _check_rate_limit calls.
C1_TokensInRange ==
  \A ip \in DOMAIN clients :
    /\ 0 <= clients[ip].tokens
    /\ clients[ip].tokens <= Capacity

\* a bucket drained to 0 by admitted requests, and a request rejected on it
C1_Witness ==
  \E ip \in DOMAIN clients :
    /\ clients[ip].tokens = 0
    /\ Admitted(ip) # {}
    /\ Rejected(ip) # {}

\* the calls of ip so far were all made at the instant its bucket was created
NoTimeElapsed(ip) ==
  /\ log[ip] # << >>
  /\ log[ip][1].fresh
  /\ log[ip][1].last = log[ip][1].t
  /\ \A k \in Calls(ip) : log[ip][k].t = log[ip][1].t

\* C2: from a fresh identity and with no time elapsing, the first burst_size
\* requests are admitted and every further one is rejected, the
\* burst_size+1-th with retry_after >= 1.
C2_BurstThenReject ==
  \A ip \in population :
    NoTimeElapsed(ip) =>
      \A k \in Calls(ip) :
        /\ log[ip][k].allowed <=> (k <= burst_size)
        /\ (k = burst_size + 1) => log[ip][k].retry_after >= 1

\* burst_size + 1 requests at one instant, the last one rejected
C2_Witness ==
  \E ip \in population :
    /\ NoTimeElapsed(ip)
    /\ Len(log[ip]) = burst_size + 1
    /\ burst_size >= 2
    /\ ~log[ip][burst_size + 1].allowed

IsAllowed(e) == e.allowed

\* how many of the calls i..j of ip were admitted
AdmittedAmong(ip, i, j) == Len(SelectSeq(SubSeq(log[ip], i, j), IsAllowed))

\* C3: in every time window the number of requests admitted for an identity
\* is at most burst_size + T * refill_rate, T the length of the window.  The
\* calls of an identity are logged in the order of their clock readings, so
\* the calls made within a window are the calls i..j for some i and j, and
\* the window is at least as long as from call i to call j.
C3_RateAndBurst ==
  \A ip \in population :
    \A i \in Calls(ip) : \A j \in i..Len(log[ip]) :
      /\ log[ip][i].t <= log[ip][j].t
      /\ AdmittedAmong(ip, i, j) * OneToken
           <= Capacity + (log[ip][j].t - log[ip][i].t) * requests_per_minute

\* a window in which the bound is met with equality, longer than an instant
\* and with a request rejected inside it
C3_Witness ==
  \E ip \in population :
    \E i \in Calls(ip) : \E j \in i..Len(log[ip]) :
      /\ log[ip][i].t < log[ip][j].t
      /\ AdmittedAmong(ip, i, j) * OneToken
           = Capacity + (log[ip][j].t - log[ip][i].t) * requests_per_minute
      /\ \E k \in i..j : ~log[ip][k].allowed

\* the slots inside refill-compare-consume-persist
InCheck == {s \in Slots : reqs[s].pc \in {"read", "decide"}}

\* C4: of two requests of one identity handled at the same instant on a bucket
\* holding exactly one token, the first is admitted and the other rejected;
\* at most one request is inside the refill-compare-consume-persist sequence.
C4_NoLostUpdate ==
  /\ Cardinality(InCheck) <= 1
  /\ \A ip \in population :
       \A i \in Calls(ip) : \A j \in Calls(ip) :
         (i < j /\ log[ip][i].t = log[ip][j].t /\ log[ip][i].tokens = OneToken)
           => (log[ip][i].allowed /\ ~log[ip][j].allowed)

\* the request that took the one token is still awaiting the downstream
\* stage when the other request, of the same instant, has been rejected
C4_Witness ==
  \E ip \in population :
    \E i \in Calls(ip) : \E j \in Calls(ip) :
      /\ i < j
      /\ log[ip][i].t = log[ip][j].t
      /\ log[ip][i].tokens = OneToken
      /\ log[ip][i].allowed /\ ~log[ip][j].allowed
      /\ \E s \in Slots : reqs[s].pc = "downstream" /\ reqs[s].ip = ip /\ reqs[s].n = i
      /\ \E s \in Slots : reqs[s].pc = "done" /\ reqs[s].ip = ip /\ reqs[s].n = j

\* the clock did not advance between the two clock reads of the call that
\* created the bucket of ip
CleanCreation(ip) == log[ip] # << >> /\ log[ip][1].last = log[ip][1].t

\* ceil(num / den) for den > 0: the least integer c with c * den >= num
IsCeil(c, num, den) == c * den >= num /\ (c - 1) * den < num

\* C5 as stated: on every rejection retry_after = max(1, ceil((1 - tokens) / rate))
\* (here for the rejections on a bucket created at one clock reading).
C5_AsStated ==
  \A ip \in population : \A k \in Rejected(ip) :
    CleanCreation(ip) =>
    \E c \in 0..(log[ip][k].retry_after + 1) :
      /\ IsCeil(c, OneToken - log[ip][k].tokens, PerSecond)
      /\ log[ip][k].retry_after = Max(1, c)

\* C5 amended: retry_after = floor((1 - tokens) / rate) + 1, that is the least
\* integer strictly greater than (1 - tokens) / rate; it is at least 1.
C5_FloorPlusOne ==
  \A ip \in population : \A k \in Rejected(ip) :
    LET r == log[ip][k].retry_after
        num == OneToken - log[ip][k].tokens
    IN /\ r >= 1
       /\ r * PerSecond > num
       /\ (r - 1) * PerSecond <= num

\* a rejection where (1 - tokens) / rate is a whole number of seconds, and one
\* where it is not
C5_Witness ==
  /\ \E ip \in population : \E k \in Rejected(ip) :
       (OneToken - log[ip][k].tokens) % PerSecond = 0
  /\ \E ip \in population : \E k \in Rejected(ip) :
       (OneToken - log[ip][k].tokens) % PerSecond # 0

\* call k of ip was rejected and the next call of ip was made exactly the
\* returned retry_after seconds later
RetriedOnTime(ip, k) ==
  /\ k \in Rejected(ip)
  /\ k + 1 \in Calls(ip)
  /\ log[ip][k + 1].t = log[ip][k].t + log[ip][k].retry_after * TicksPerSec

\* the calls of ip from call k on that were made at the instant of call k
BackToBack(ip, k) == {j \in Calls(ip) : j >= k /\ log[ip][j].t = log[ip][k].t}

\* C6 as stated: after a rejection, waiting exactly retry_after seconds and
\* retrying back-to-back admits one request and rejects the next
\* (here for the rejections on a bucket created at one clock reading).
C6_AsStated ==
  \A ip \in population : \A k \in Calls(ip) :
    (CleanCreation(ip) /\ RetriedOnTime(ip, k)) =>
      /\ log[ip][k + 1].allowed
      /\ (k + 2) \in BackToBack(ip, k + 1) => ~log[ip][k + 2].allowed

\* C6 amended: the retry made exactly retry_after seconds after a rejection is
\* admitted, and the requests admitted back-to-back at that instant number at
\* most burst_size, and at most 1 + refill_rate (rounded down) when the
\* rejected request did not create the bucket.
C6_AtLeastOne ==
  \A ip \in population : \A k \in Calls(ip) :
    RetriedOnTime(ip, k) =>
      LET n == Cardinality(BackToBack(ip, k + 1) \cap Admitted(ip))
      IN /\ log[ip][k + 1].allowed
         /\ n >= 1
         /\ n <= burst_size
         /\ ~log[ip][k].fresh => n * OneToken <= OneToken + PerSecond

\* a request admitted out of a drained bucket, rejected, retried on time and
\* admitted, and the request right after that rejected again
C6_Witness ==
  \E ip \in population : \E k \in Calls(ip) :
    /\ RetriedOnTime(ip, k)
    /\ ~log[ip][k].fresh
    /\ log[ip][k + 1].allowed
    /\ (k + 2) \in BackToBack(ip, k + 1)
    /\ ~log[ip][k + 2].allowed

\* the last decided call of ip
LastCall(ip) == log[ip][Len(log[ip])]

\* C7 as stated: a rejection persists the refilled tokens and
\* last_refill_at = now into the bucket
\* (here for the rejections on a bucket created at one clock reading).
C7_AsStated ==
  \A ip \in population :
    (CleanCreation(ip) /\ ~LastCall(ip).allowed) =>
      /\ clients[ip].last_request_time = LastCall(ip).t
      /\ clients[ip].tokens = LastCall(ip).tokens

\* C7 amended: a rejection persists nothing; the bucket keeps the
\* (last_request_time, tokens) the rejected request read, and the next request
\* of the identity reads those and computes its elapsed time from them.
C7_RejectKeepsBucket ==
  \A ip \in population :
    /\ (log[ip] # << >> /\ ~LastCall(ip).allowed) =>
         /\ clients[ip].last_request_time = LastCall(ip).last
         /\ clients[ip].tokens = LastCall(ip).old
    /\ \A k \in Rejected(ip) :
         (k + 1) \in Calls(ip) =>
           /\ log[ip][k + 1].last = log[ip][k].last
           /\ log[ip][k + 1].old = log[ip][k].old

\* a request rejected later than the time stored in the bucket, with tokens
\* refilled in between, and the next request of the identity decided
C7_Witness ==
  \E ip \in population : \E k \in Rejected(ip) :
    /\ log[ip][k].t > log[ip][k].last
    /\ log[ip][k].tokens > log[ip][k].old
    /\ (k + 1) \in Calls(ip)
    /\ log[ip][k + 1].t > log[ip][k].t

\* C8: an admitted request leaves tokens = min(burst_size, old_tokens +
\* elapsed * refill_rate) - 1 and last_refill_at = now in the bucket, and the
\* tokens_remaining it returns is the stored value.
C8_AdmitConsumesOne ==
  \A ip \in population :
    /\ (log[ip] # << >> /\ LastCall(ip).allowed) =>
         LET e == LastCall(ip)
             elapsed == e.t - e.last
         IN /\ clients[ip].last_request_time = e.t
            /\ clients[ip].tokens
                 = Min(Capacity, e.old + elapsed * requests_per_minute) - OneToken
            /\ \A s \in Slots :
                 (reqs[s].pc = "downstream" /\ reqs[s].ip = ip /\ reqs[s].n = Len(log[ip]))
                   => reqs[s].tokens_remaining = clients[ip].tokens
    /\ \A k \in Admitted(ip) :
         log[ip][k].tokens >= OneToken

\* a request admitted after time has passed: once with the refill clamped to
\* burst_size, once with it below
C8_Witness ==
  /\ \E s \in Slots : reqs[s].pc = "downstream"
  /\ \E ip \in population :
       /\ log[ip] # << >>
       /\ LastCall(ip).allowed
       /\ LastCall(ip).t > LastCall(ip).last
       /\ LastCall(ip).old + (LastCall(ip).t - LastCall(ip).last) * requests_per_minute
            # LastCall(ip).tokens
       /\ \E k \in Admitted(ip) :
            /\ log[ip][k].t > log[ip][k].last
            /\ log[ip][k].tokens < Capacity

\* the slots whose request has passed _check_rate_limit
Decided == {s \in Slots : reqs[s].pc \in {"downstream", "done"}}

\* C9: a rejected request gets a 429 response with Retry-After =
\* retry_after, X-RateLimit-Limit = requests_per_minute, X-RateLimit-Remaining
\* = 0 and X-RateLimit-Reset = now + retry_after in whole unix seconds, and
\* call_next is not invoked for it.
C9_Reject429 ==
  \A s \in Decided :
    LET e == log[reqs[s].ip][reqs[s].n]
    IN ~e.allowed =>
         /\ reqs[s].pc = "done"
         /\ reqs[s].status = 429
         /\ reqs[s].calls = 0
         /\ reqs[s].headers.retry_after = e.retry_after
         /\ reqs[s].headers.limit = requests_per_minute
         /\ reqs[s].headers.remaining = 0
         /\ \E sec \in 0..MaxTime :
              /\ sec * TicksPerSec <= reqs[s].now
              /\ reqs[s].now < (sec + 1) * TicksPerSec
              /\ reqs[s].headers.reset = sec + e.retry_after

\* a 429 response produced at a time that is not a whole second
C9_Witness ==
  \E s \in Slots :
    /\ reqs[s].pc = "done"
    /\ reqs[s].status = 429
    /\ reqs[s].now % TicksPerSec # 0
    /\ reqs[s].now > log[reqs[s].ip][reqs[s].n].t

\* C10: an admitted request is passed to call_next exactly once, and the
\* response returned, whatever its status, carries X-RateLimit-Limit =
\* requests_per_minute, X-RateLimit-Remaining = floor(tokens_remaining) and
\* X-RateLimit-Reset = now + (burst_size - tokens_remaining) / refill_rate in
\* whole seconds, tokens_remaining being what its own consume left.
C10_AllowDecorated ==
  \A s \in Decided :
    LET e == log[reqs[s].ip][reqs[s].n]
        left == e.tokens - OneToken
    IN e.allowed =>
         /\ reqs[s].calls = 1
         /\ reqs[s].pc = "done" =>
              /\ reqs[s].status \in DownstreamStatuses
              /\ reqs[s].headers.limit = requests_per_minute
              /\ reqs[s].headers.remaining * OneToken <= left
              /\ left < (reqs[s].headers.remaining + 1) * OneToken
              /\ reqs[s].headers.reset * PerSecond
                   <= reqs[s].now * requests_per_minute + (Capacity - left)
              /\ reqs[s].now * requests_per_minute + (Capacity - left)
                   < (reqs[s].headers.reset + 1) * PerSecond

\* the response to an admitted request returned with an error status, after
\* a later request of the same identity has changed the bucket
C10_Witness ==
  \E s \in Slots :
    /\ reqs[s].pc = "done"
    /\ reqs[s].calls = 1
    /\ reqs[s].status = 500
    /\ reqs[s].n < Len(log[reqs[s].ip])
    /\ clients[reqs[s].ip].tokens # reqs[s].tokens_remaining
    /\ reqs[s].now > log[reqs[s].ip][reqs[s].n].t

\* ------------------------------------------------------------------------
\* Properties of the identity derivation
\* ------------------------------------------------------------------------

\* an identity has been derived for the request at hand
Derived == ident.pc \in {"derived", "checked"}

\* e is the first comma-separated entry of v
IsFirstEntry(e, v) ==
  /\ Len(e) <= Len(v)
  /\ \A i \in 1..Len(e) : e[i] = v[i] /\ e[i] # ","
  /\ Len(e) = Len(v) \/ v[Len(e) + 1] = ","

\* r is e without its leading and trailing blanks
IsTrimOf(r, e) ==
  \E i, j \in 0..Len(e) :
    /\ i + j <= Len(e)
    /\ \A k \in 1..i : e[k] = " "
    /\ \A k \in (Len(e) - j + 1)..Len(e) : e[k] = " "
    /\ r = SubSeq(e, i + 1, Len(e) - j)
    /\ r = << >> \/ (r[1] # " " /\ r[Len(r)] # " ")

\* r is the trimmed first entry of the header value v
IsTrimmedFirstEntry(r, v) ==
  \E n \in 0..Len(v) : IsFirstEntry(SubSeq(v, 1, n), v) /\ IsTrimOf(r, SubSeq(v, 1, n))

\* the identity is the peer address if there is one, "unknown" otherwise
PeerOrUnknown ==
  IF ident.client.present THEN ident.client_ip = ident.client.value
  ELSE ident.client_ip = Unknown

\* C11 as stated: whenever the X-Forwarded-For header is present the identity
\* is its trimmed first entry, whatever the peer; without the header it is the
\* peer address if there is one and "unknown" otherwise.
C11_AsStated ==
  Derived =>
    IF ident.forwarded_for.present
    THEN IsTrimmedFirstEntry(ident.client_ip, ident.forwarded_for.value)
    ELSE PeerOrUnknown

\* C11: when the X-Forwarded-For header is present with a non-empty value the
\* identity is its trimmed first comma-separated entry, whatever the peer;
\* when the header is absent or its value is empty the identity is the peer
\* address if there is one and "unknown" otherwise.
C11_NonEmptyHeaderFirst ==
  Derived =>
    IF ident.forwarded_for.present /\ ident.forwarded_for.value # << >>
    THEN IsTrimmedFirstEntry(ident.client_ip, ident.forwarded_for.value)
    ELSE PeerOrUnknown

C11_Witness ==
  /\ ident.pc = "derived"
  /\ ident.forwarded_for = Some(<<" ", "1", ",">>)
  /\ ident.client = Some(<<"9">>)
  /\ ident.client_ip = <<"1">>

\* C12: the identity handed to _check_rate_limit is never the empty string,
\* whatever the X-Forwarded-For value and the peer, and every request that
\* reaches dispatch has _check_rate_limit called for it.
C12_IdentityNeverEmpty ==
  /\ Derived => ident.client_ip # << >>
  /\ ident.pc = "checked" => ident.checks = 1

\* ------------------------------------------------------------------------
\* Properties of the auth gate
\* ------------------------------------------------------------------------

\* dispatch has decided on the request at hand
AuthDecided == auth.pc \in {"downstream", "done"}

\* the gate passed the request on / answered it itself
AuthAdmitted == AuthDecided /\ auth.calls = 1
AuthRejected == auth.pc = "done" /\ auth.calls = 0

\* the path is one of the excluded paths or continues an excluded prefix
PathExcluded ==
  \/ \E e \in EXCLUDED_PATHS : auth.path = e
  \/ \E e \in EXCLUDED_PREFIXES, n \in 0..Len(auth.path) :
       auth.path = e \o SubSeq(auth.path, n + 1, Len(auth.path))

CredentialAbsentOrEmpty == ~auth.key.present \/ auth.key.value = ""
CredentialMatches == auth.key.present /\ auth.key.value = auth.api_key

\* C13: with auth_required false every request is admitted and passed to the
\* downstream stage, whatever its path and whatever credential it presents.
C13_AuthOffAdmitsAll ==
  (~auth.require_auth /\ AuthDecided) =>
    /\ auth.calls = 1
    /\ auth.error = ""
    /\ auth.pc = "done" => auth.status \in DownstreamStatuses

C13_Witness ==
  /\ ~auth.require_auth
  /\ auth.pc = "done"
  /\ auth.path = <<"/", "x">>
  /\ auth.key = Some("k3")
  /\ auth.api_key = "k1"
  /\ auth.calls = 1

\* C14: with auth_required true a request without a matching credential is
\* admitted exactly when its path is an excluded path or starts with an
\* excluded prefix, and a request for such a path is admitted whatever its
\* credential.
C14_ExcludedIffAdmitted ==
  (auth.require_auth /\ AuthDecided) =>
    /\ ~CredentialMatches => (AuthAdmitted <=> PathExcluded)
    /\ PathExcluded => AuthAdmitted

C14_Witness ==
  /\ auth.require_auth
  /\ auth.pc = "downstream"
  /\ auth.path = <<"/", "api/v1/", "docs", "x">>
  /\ auth.key = None
  /\ auth.api_key = "k1"

\* C15: on a protected path with auth_required true an absent or empty
\* credential is answered 401 "Unauthorized" and a present credential other
\* than the expected one 403 "Forbidden"; the gate never answers 403 to an
\* absent or empty credential nor 401 to a present one.
C15_MissingVsInvalid ==
  (auth.require_auth /\ AuthDecided /\ ~PathExcluded) =>
    /\ CredentialAbsentOrEmpty =>
         AuthRejected /\ auth.status = 401 /\ auth.error = "Unauthorized"
    /\ (~CredentialAbsentOrEmpty /\ auth.key.value # auth.api_key) =>
         AuthRejected /\ auth.status = 403 /\ auth.error = "Forbidden"
    /\ (AuthRejected /\ auth.status = 403) => ~CredentialAbsentOrEmpty
    /\ (AuthRejected /\ auth.status = 401) => CredentialAbsentOrEmpty

C15_Witness ==
  /\ auth.require_auth
  /\ auth.pc = "done"
  /\ auth.path = <<"/", "api/v1/", "x">>
  /\ auth.key = Some("")
  /\ auth.api_key = "k1"
  /\ auth.status = 401

\* C16: the downstream handler is invoked exactly once for a request the gate
\* admits, a protected-path request with the expected X-API-Key among them,
\* and not at all for a request the gate answers with 401 or 403.
C16_DownstreamOnce ==
  AuthDecided =>
    /\ IF auth.error # "" THEN auth.calls = 0 ELSE auth.calls = 1
    /\ (auth.pc = "done" /\ auth.calls = 0) => auth.status \in {401, 403}
    /\ (auth.require_auth /\ ~PathExcluded /\ ~CredentialAbsentOrEmpty
          /\ CredentialMatches) => auth.calls = 1

C16_Witness ==
  /\ auth.require_auth
  /\ auth.pc = "done"
  /\ auth.path = <<"/", "x">>
  /\ auth.key = Some("k1")
  /\ auth.api_key = "k1"
  /\ auth.status = 200
  /\ auth.calls = 1

\* ------------------------------------------------------------------------
\* Properties of the application
\* ------------------------------------------------------------------------

\* the place of middleware m among those the request has passed, 0 if none
PassedAt(m) ==
  IF \E i \in DOMAIN app.passed : app.passed[i] = m
  THEN CHOOSE i \in DOMAIN app.passed : app.passed[i] = m
  ELSE 0

\* C18: a request reaches the route handler only after the rate limiter and
\* then the auth gate have both admitted it, in this order.
C18_LimiterThenAuthThenHandler ==
  app.pc = "handler" =>
    /\ PassedAt("RateLimitMiddleware") > 0
    /\ PassedAt("APIKeyAuthMiddleware") > PassedAt("RateLimitMiddleware")

\* ------------------------------------------------------------------------
\* Properties over every configuration
\* ------------------------------------------------------------------------

\* C19: whatever the configuration with requests_per_minute >= 0 and
\* burst_size >= 0, dispatch of the rate limiter ends every request either
\* with the downstream response or with a 429 that carries its headers; it
\* never ends by an exception (a division by a zero rate).
C19_NoUnhandledFault ==
  \A s \in Slots :
    reqs[s].pc = "done" =>
      /\ ~reqs[s].raised
      /\ \/ reqs[s].calls = 1 /\ reqs[s].status \in DownstreamStatuses
         \/ /\ reqs[s].calls = 0
            /\ reqs[s].status = 429
            /\ reqs[s].headers.retry_after >= 1

\* ------------------------------------------------------------------------
\* Properties of the creation of buckets
\* ------------------------------------------------------------------------

\* the identities a request of which has entered _check_rate_limit
Senders ==
  {ip \in Identities : log[ip] # << >>}
    \cup {reqs[s].ip : s \in {x \in Slots : reqs[x].pc \in {"read", "decide"}}}

\* C20: the bucket of an identity is created by its first request, full and
\* stamped with the very clock reading that request computes its elapsed time
\* from, so that the creating request sees elapsed = 0 and a refill that adds
\* nothing; an identity that has sent no request has no bucket.
C20_LazyCreationSameReading ==
  /\ \A ip \in Identities : \A k \in Calls(ip) :
       log[ip][k].fresh =>
         /\ k = 1
         /\ log[ip][k].old = Capacity
         /\ log[ip][k].last = log[ip][k].t
         /\ log[ip][k].tokens = log[ip][k].old
  /\ DOMAIN clients \subseteq Senders

\* ------------------------------------------------------------------------
\* Frame properties of the rate limiter
\* ------------------------------------------------------------------------

\* slot s takes the step of _check_rate_limit that returns not-admitted
Rejects(s) == reqs[s].pc = "decide" /\ reqs'[s].pc = "done" /\ ~reqs'[s].is_allowed

\* slot s looks up the bucket of an identity that has one
ReadsExisting(s) ==
  reqs[s].pc = "read" /\ reqs'[s].pc = "decide" /\ reqs[s].ip \in DOMAIN clients

\* C21: a _check_rate_limit call that returns not-admitted on an identity
\* that already had a bucket modifies neither the tokens nor the time stored
\* for it: the lookup writes nothing, the rejection writes nothing, and the
\* bucket still holds the pair the call read.
C21_RejectFramesBucket ==
  [][\A s \in Slots :
       /\ ReadsExisting(s) => clients' = clients
       /\ (Rejects(s) /\ ~reqs[s].fresh) =>
            /\ clients' = clients
            /\ clients[reqs[s].ip] =
                 [last_request_time |-> reqs[s].last_request_time,
                  tokens |-> reqs[s].old_tokens]]_vars

\* a request answered 429 out of a bucket that existed and had refilled
\* since, the bucket being as the request found it
C21_Witness ==
  \E s \in Slots :
    /\ reqs[s].pc = "done"
    /\ reqs[s].status = 429
    /\ LET e == log[reqs[s].ip][reqs[s].n]
       IN /\ ~e.fresh
          /\ e.t > e.last
          /\ e.tokens > e.old
          /\ clients[reqs[s].ip] = [last_request_time |-> e.last, tokens |-> e.old]

\* the step is taken by a request of identity b that is in _check_rate_limit
StepOf(b) ==
  \E s \in Slots :
    reqs[s].ip = b /\ reqs[s].pc \in {"read", "decide"} /\ reqs'[s] # reqs[s]

\* what a call's decision may depend on, and the decision
Inputs(e) == <<e.t, e.last, e.old>>
Outcome(e) == <<e.allowed, e.retry_after>>

\* C22: the bucket of an identity is created and changed only by steps of
\* that identity's own requests, whatever other identities do, and the
\* outcome of a call is determined by the bucket it read and the clock
\* reading it took (the configuration being fixed): two calls, of the same or
\* of different identities, that read the same agree.
C22_Isolation ==
  /\ [][\A b \in Identities :
          \/ b \notin DOMAIN clients' /\ b \notin DOMAIN clients
          \/ b \in DOMAIN clients /\ b \in DOMAIN clients' /\ clients'[b] = clients[b]
          \/ StepOf(b)]_vars
  /\ [](\A a, b \in Identities : \A i \in Calls(a), j \in Calls(b) :
          Inputs(log[a][i]) = Inputs(log[b][j])
            => Outcome(log[a][i]) = Outcome(log[b][j]))

\* one identity drained and rejected while the other, at the same instant,
\* is admitted from its own bucket; then the first one is admitted again
C22_Witness ==
  \E a, b \in Identities : \E i \in Calls(a), j \in Calls(b) :
    /\ a # b
    /\ ~log[a][i].allowed
    /\ log[b][j].allowed
    /\ log[a][i].t = log[b][j].t
    /\ clients[a] # clients[b]
    /\ (i + 1) \in Calls(a) /\ log[a][i + 1].allowed

\* the identities a request of which has got to the lookup of its bucket
LookedUp ==
  {ip \in Identities : log[ip] # << >>}
    \cup {reqs[s].ip : s \in {x \in Slots : reqs[x].pc = "decide"}}

\* C23: no step removes a key from the identity-to-bucket map, and the keys
\* are at all times the identities a request of which has looked its bucket
\* up: with no request between its clock reading and its lookup, the
\* identities that have sent a request.
C23_NeverPruned ==
  /\ [][DOMAIN clients \subseteq DOMAIN clients']_vars
  /\ [](DOMAIN clients = LookedUp)
  /\ []((\A s \in Slots : reqs[s].pc # "read") => DOMAIN clients = Senders)

\* both identities have a bucket, one of them after requests that were all
\* rejected but the first, the clock having reached MaxTime since
C23_Witness ==
  /\ DOMAIN clients = Identities
  /\ clock = MaxTime
  /\ \A s \in Slots : reqs[s].pc = "idle"
  /\ \E a \in Identities :
       /\ Len(log[a]) >= 3
       /\ \A k \in Calls(a) : k > 1 => ~log[a][k].allowed
       /\ log[a][Len(log[a])].t < MaxTime

\* ------------------------------------------------------------------------
\* Properties under a clock that may be set back
\* ------------------------------------------------------------------------

\* C24: the refill never lowers the tokens of a bucket: whatever the clock
\* readings, one earlier than the stored time included, the elapsed time a
\* call uses is >= 0 and the tokens after the refill are >= the stored ones
\* (here for buckets created at one clock reading).
C24_RefillNeverLowers ==
  \A ip \in population :
    CleanCreation(ip) =>
      \A k \in Calls(ip) :
        /\ log[ip][k].t - log[ip][k].last >= 0
        /\ log[ip][k].tokens >= log[ip][k].old

\* ------------------------------------------------------------------------
\* The rate limiter over unbounded time
\* ------------------------------------------------------------------------
\* Only differences of clock readings enter _check_rate_limit.  Here the
\* present is always reading 0 and the passing of a tick moves every stored
\* reading one tick into the past.  A bucket is full once FullTicks have
\* passed since its stored reading, so a stored reading older than
\* FullTicks + 1 is kept at that age, and at most one tick passes while a
\* request is inside _check_rate_limit: the refill of every call is then what
\* it is with the true readings.  The history keeps the last two calls.

\* ticks after which an untouched bucket is full
FullTicks == (burst_size * TokenUnit) \div requests_per_minute + 1

\* a stored reading, one tick later
Past(reading) == Max(reading - 1, 0 - (FullTicks + 1))

\* One tick passes.
TimePasses ==
  /\ \A s \in Slots : reqs[s].pc # "done"
  /\ \A s \in Slots :
       reqs[s].pc \in {"read", "decide"} => reqs[s].current_time = 0
  /\ clients' = [ip \in DOMAIN clients |->
                   [clients[ip] EXCEPT !.last_request_time = Past(@)]]
  /\ reqs' = [s \in Slots |->
                IF reqs[s].pc = "read"
                THEN [reqs[s] EXCEPT !.current_time = @ - 1]
                ELSE IF reqs[s].pc = "decide"
                THEN [reqs[s] EXCEPT !.current_time = @ - 1,
                                     !.last_request_time = Past(@)]
                ELSE reqs[s]]
  /\ UNCHANGED <<sideVars, clock, requests_per_minute, burst_size, population, log>>

\* the history with one more call, cut to its last two
Recent(history, entry) ==
  IF Len(history) < 2 THEN Append(history, entry)
  ELSE <<history[Len(history)], entry>>

\* Decide, with the history cut short
DecideRecent(s) ==
  /\ reqs[s].pc = "decide"
  /\ LET ip == reqs[s].ip
         tokens == reqs[s].tokens
     IN IF NotEnough(tokens) /\ RateIsZero
        THEN /\ reqs' = [reqs EXCEPT ![s] = Raise(s)]
             /\ UNCHANGED <<clients, log>>
        ELSE IF NotEnough(tokens)
        THEN /\ reqs' = [reqs EXCEPT ![s] =
                          [IdleSlot EXCEPT !.pc = "done", !.ip = ip,
                                           !.is_allowed = FALSE,
                                           !.tokens_remaining = 0,
                                           !.retry_after = RetryAfter(tokens),
                                           !.status = 429,
                                           !.now = clock,
                                           !.headers = RejectHeaders(RetryAfter(tokens))]]
             /\ log' = [log EXCEPT ![ip] =
                          Recent(@, LogEntry(reqs[s], FALSE, RetryAfter(tokens)))]
             /\ clients' = ClientsAfterReject(ip, reqs[s].current_time, tokens)
        ELSE /\ clients' = ClientsAfterAllow(ip, reqs[s].current_time, tokens)
             /\ reqs' = [reqs EXCEPT ![s] =
                          [IdleSlot EXCEPT !.pc = "downstream", !.ip = ip,
                                           !.is_allowed = TRUE,
                                           !.tokens_remaining = tokens - TokenUnit,
                                           !.retry_after = 0,
                                           !.calls = reqs[s].calls + 1]]
             /\ log' = [log EXCEPT ![ip] = Recent(@, LogEntry(reqs[s], TRUE, 0))]
  /\ UNCHANGED <<sideVars, clock, requests_per_minute, burst_size, population>>

NextLive ==
  \/ TimePasses
  \/ \E s \in Slots, ip \in Identities : Dispatch(s, ip)
  \/ \E s \in Slots : ReadBucket(s)
  \/ \E s \in Slots : DecideRecent(s)
  \/ \E s \in Slots, st \in DownstreamStatuses : CallNextReturns(s, st)
  \/ \E s \in Slots : Respond(s)

\* one identity, a bucket of one token
InitLive ==
  /\ clock = 0
  /\ requests_per_minute \in {60, 100}
  /\ burst_size = 1
  /\ population = SingleClient
  /\ clients = << >>
  /\ reqs = [s \in Slots |-> IdleSlot]
  /\ log = [ip \in Identities |-> << >>]
  /\ SideIdle

\* The clock keeps advancing and the identity keeps sending (strong fairness:
\* both are held up while a response is handed over); the event loop runs
\* every coroutine that can run.
SpecLive ==
  /\ InitLive
  /\ [][NextLive]_vars
  /\ SF_vars(TimePasses)
  /\ SF_vars(\E s \in Slots, ip \in Identities : Dispatch(s, ip))
  /\ WF_vars(\E s \in Slots : ReadBucket(s))
  /\ WF_vars(\E s \in Slots : DecideRecent(s))
  /\ WF_vars(\E s \in Slots, st \in DownstreamStatuses : CallNextReturns(s, st))
  /\ WF_vars(\E s \in Slots : Respond(s))

\* the latest call of ip was rejected / admitted
LatestRejected(ip) == log[ip] # << >> /\ ~LastCall(ip).allowed
LatestAdmitted(ip) == log[ip] # << >> /\ LastCall(ip).allowed

\* C25: with a positive rate, burst_size >= 1, a clock that keeps advancing
\* and an identity that keeps sending, every rejection is followed by an
\* admission of that identity, however many rejected requests come between.
C25_NoStarvation ==
  \A ip \in SingleClient : LatestRejected(ip) ~> LatestAdmitted(ip)

\* a request rejected out of a drained bucket and the next one, a tick
\* later, admitted
C25_Witness ==
  \E ip \in population :
    /\ Len(log[ip]) = 2
    /\ ~log[ip][1].allowed /\ ~log[ip][1].fresh
    /\ log[ip][2].allowed
    /\ log[ip][2].old = log[ip][1].old
    /\ log[ip][2].last < log[ip][1].last

\* ------------------------------------------------------------------------
\* The two rejection policies
\* ------------------------------------------------------------------------

\* The bucket of ip after its first k calls under the other policy, which on
\* a rejection persists the refilled tokens and the reading of the rejected
\* call: replayed over the readings of the calls ip made, from the bucket as
\* it was created.
RECURSIVE PersistBucket(_, _)
PersistBucket(ip, k) ==
  IF k = 0
  THEN [last_request_time |-> log[ip][1].last, tokens |-> Capacity]
  ELSE LET b == PersistBucket(ip, k - 1)
           t == log[ip][k].t
           tokens == Refill(b.tokens, t - b.last_request_time)
       IN IF NotEnough(tokens)
          THEN [last_request_time |-> t, tokens |-> tokens]
          ELSE [last_request_time |-> t, tokens |-> tokens - TokenUnit]

\* the decision of call k of ip under the persisting policy
PersistAdmits(ip, k) ==
  LET b == PersistBucket(ip, k - 1)
  IN ~NotEnough(Refill(b.tokens, log[ip][k].t - b.last_request_time))

\* C26: under a clock that never goes back, persisting the refilled bucket
\* on a rejection and leaving the bucket untouched decide every request of
\* every identity alike.
C26_PoliciesAgree ==
  \A ip \in population : \A k \in Calls(ip) :
    PersistAdmits(ip, k) <=> log[ip][k].allowed

\* a rejection after which the two policies hold different buckets, followed
\* by another rejection and then, later, by an admission
C26_Witness ==
  \E ip \in population : \E k \in Rejected(ip) :
    /\ (k + 2) \in Calls(ip)
    /\ PersistBucket(ip, k).last_request_time # log[ip][k + 1].last
    /\ PersistBucket(ip, k).tokens # log[ip][k + 1].old
    /\ ~log[ip][k + 1].allowed
    /\ log[ip][k + 2].allowed
    /\ log[ip][k + 2].t > log[ip][k].t

\* ------------------------------------------------------------------------
\* Sufficiency of Retry-After
\* ------------------------------------------------------------------------

\* no call of ip strictly between calls k and j was admitted
NoneAdmittedBetween(ip, k, j) ==
  \A i \in Calls(ip) : (k < i /\ i < j) => ~log[ip][i].allowed

\* call j of ip was made retry_after seconds or more after call k
AfterRetryAfter(ip, k, j) ==
  log[ip][j].t >= log[ip][k].t + log[ip][k].retry_after * TicksPerSec

\* C27: when a request of an identity is rejected at time t with
\* retry_after r and none of its requests is admitted in between, a request
\* it makes at t + r or later is admitted.
C27_RetryAfterSuffices ==
  \A ip \in population : \A k \in Rejected(ip) : \A j \in Calls(ip) :
    (j > k /\ AfterRetryAfter(ip, k, j) /\ NoneAdmittedBetween(ip, k, j))
      => log[ip][j].allowed

\* a rejection, a second rejection before retry_after has passed, and the
\* request made once it has passed, admitted
C27_Witness ==
  \E ip \in population : \E k \in Rejected(ip) :
    /\ (k + 2) \in Calls(ip)
    /\ ~log[ip][k + 1].allowed
    /\ log[ip][k + 1].t > log[ip][k].t
    /\ ~AfterRetryAfter(ip, k, k + 1)
    /\ AfterRetryAfter(ip, k, k + 2)
    /\ log[ip][k + 2].allowed

\* ------------------------------------------------------------------------
\* The first request of an identity
\* ------------------------------------------------------------------------

\* C28: whatever burst_size >= 1 and however the clock advances between two
\* readings, the first request of a fresh identity is admitted and leaves
\* burst_size - 1 tokens in its bucket.
C28_FirstRequestAdmitted ==
  \A ip \in population :
    (log[ip] # << >> /\ log[ip][1].fresh) =>
      /\ log[ip][1].allowed
      /\ log[ip][1].tokens - OneToken = Capacity - OneToken

\* ------------------------------------------------------------------------
\* The auth gate with no credential configured
\* ------------------------------------------------------------------------

\* C29: with auth_required true and the empty string as the expected
\* credential, no request for a path that is not excluded is admitted,
\* whatever it presents: 401 for an absent or empty credential, 403 for any
\* other.
C29_FailClosed ==
  (auth.require_auth /\ auth.api_key = "" /\ AuthDecided /\ ~PathExcluded) =>
    /\ auth.pc = "done"
    /\ auth.calls = 0
    /\ auth.status = IF CredentialAbsentOrEmpty THEN 401 ELSE 403

\* the empty credential presented where the empty credential is expected
C29_Witness ==
  /\ auth.require_auth
  /\ auth.api_key = ""
  /\ auth.pc = "done"
  /\ auth.path = <<"/", "api/v1/", "health", "x">>
  /\ auth.key = Some("")
  /\ auth.status = 401
  /\ auth.calls = 0

\* ------------------------------------------------------------------------
\* The flow s3_to_redshift_pipeline
\* (src/orchestration/flows/s3_redshift_pipeline.py)
\* ------------------------------------------------------------------------
\* A task the flow calls returns a result or raises; which, is the world's
\* choice.  files is len(files), file the position of file_info in files,
\* errors is len(results["errors"]).  total_rows and the time stamps of
\* results are left out: nothing in the flow reads them.

ValidationOutcomes == {"passed", "failed", "raised"}
CopyOutcomes == {"success", "failure", "raised"}
ArchiveOutcomes == {"returned", "raised"}
DbtOutcomes == {"returned", "raised"}

\* the flow is called: results as lines 78-89 set it up
FlowStart ==
  /\ flow.pc = "idle"
  /\ \E v \in BOOLEAN, a \in BOOLEAN, d \in BOOLEAN :
       flow' = [FlowIdle EXCEPT !.pc = "connect", !.validate_data = v,
                                !.archive_after_load = a, !.run_dbt_models = d]
  /\ UNCHANGED <<limiterVars, ident, auth, app>>

\* step 1: test_redshift_connection()
TestConnection(connected) ==
  /\ flow.pc = "connect"
  /\ flow' = IF connected
               THEN [flow EXCEPT !.pc = "list"]
               ELSE [flow EXCEPT !.pc = "returned", !.errors = @ + 1,
                                 !.success = FALSE]
  /\ UNCHANGED <<limiterVars, ident, auth, app>>

\* step 2: list_s3_files() returns n files
ListFiles(n) ==
  /\ flow.pc = "list"
  /\ flow' = IF n = 0
               THEN [flow EXCEPT !.pc = "returned", !.success = TRUE]
               ELSE [flow EXCEPT !.pc = "loop", !.files = n, !.file = 0]
  /\ UNCHANGED <<limiterVars, ident, auth, app>>

\* for file_info in files: the next file, or the end of the loop
NextFile ==
  /\ flow.pc = "loop"
  /\ flow' = IF flow.file < flow.files
               THEN [flow EXCEPT !.file = @ + 1,
                                 !.pc = IF flow.validate_data THEN "validate"
                                        ELSE "copy"]
               ELSE [flow EXCEPT !.pc = "dbt"]
  /\ UNCHANGED <<limiterVars, ident, auth, app>>

\* except Exception as e, lines 181-187: the file is counted as failed and
\* the loop goes on
ExceptHandler(f) ==
  [f EXCEPT !.files_failed = @ + 1, !.errors = @ + 1, !.pc = "loop"]

\* step 3a: download_from_s3 and run_expectations
Validate(outcome) ==
  /\ flow.pc = "validate"
  /\ flow' = CASE outcome = "passed" -> [flow EXCEPT !.pc = "copy"]
               [] outcome = "failed" ->
                    [flow EXCEPT !.validation_passed = FALSE,
                                 !.files_failed = @ + 1, !.errors = @ + 1,
                                 !.pc = "loop"]
               [] outcome = "raised" -> ExceptHandler(flow)
  /\ UNCHANGED <<limiterVars, ident, auth, app>>

\* step 3b: copy_s3_to_redshift; on success the file is counted as
\* processed before it is archived
CopyToRedshift(outcome) ==
  /\ flow.pc = "copy"
  /\ flow' = CASE outcome = "success" ->
                    [flow EXCEPT !.files_processed = @ + 1,
                                 !.pc = IF flow.archive_after_load THEN "archive"
                                        ELSE "loop"]
               [] outcome = "failure" ->
                    [flow EXCEPT !.files_failed = @ + 1, !.errors = @ + 1,
                                 !.pc = "loop"]
               [] outcome = "raised" -> ExceptHandler(flow)
  /\ UNCHANGED <<limiterVars, ident, auth, app>>

\* step 3c: archive_file, inside the same try block
Archive(outcome) ==
  /\ flow.pc = "archive"
  /\ flow' = IF outcome = "returned" THEN [flow EXCEPT !.pc = "loop"]
             ELSE ExceptHandler(flow)
  /\ UNCHANGED <<limiterVars, ident, auth, app>>

\* step 4: run_dbt, when asked for and a file was processed
Transform(outcome) ==
  /\ flow.pc = "dbt"
  /\ flow' = IF flow.run_dbt_models /\ flow.files_processed > 0
               THEN IF outcome = "returned"
                      THEN [flow EXCEPT !.dbt_run = TRUE, !.pc = "finalize"]
                      ELSE [flow EXCEPT !.errors = @ + 1, !.pc = "finalize"]
               ELSE [flow EXCEPT !.pc = "finalize"]
  /\ UNCHANGED <<limiterVars, ident, auth, app>>

\* results["success"] is set and results is returned
Finalize ==
  /\ flow.pc = "finalize"
  /\ flow' = [flow EXCEPT !.success = (flow.files_failed = 0 /\ flow.errors = 0),
                          !.pc = "returned"]
  /\ UNCHANGED <<limiterVars, ident, auth, app>>

\* the caller has the results; the flow can be run again
FlowReturns ==
  /\ flow.pc = "returned"
  /\ flow' = FlowIdle
  /\ UNCHANGED <<limiterVars, ident, auth, app>>

InitFlow ==
  /\ LimiterIdle
  /\ SideIdle

NextFlow ==
  \/ FlowStart
  \/ \E connected \in BOOLEAN : TestConnection(connected)
  \/ \E n \in 0..MaxFiles : ListFiles(n)
  \/ NextFile
  \/ \E outcome \in ValidationOutcomes : Validate(outcome)
  \/ \E outcome \in CopyOutcomes : CopyToRedshift(outcome)
  \/ \E outcome \in ArchiveOutcomes : Archive(outcome)
  \/ \E outcome \in DbtOutcomes : Transform(outcome)
  \/ Finalize
  \/ FlowReturns

SpecFlow == InitFlow /\ [][NextFlow]_vars

\* ------------------------------------------------------------------------
\* The counts of the per-file loop
\* ------------------------------------------------------------------------

\* the per-file loop of this run has ended
LoopEnded == flow.pc \in {"dbt", "finalize"} \/ (flow.pc = "returned" /\ flow.files > 0)

\* C30: when the per-file loop ends every listed file has been counted
\* exactly once, as processed or as failed: files_processed + files_failed
\* is the number of files listed, whatever validation, COPY and archive
\* returned or raised.
C30_EveryFileCountedOnce ==
  LoopEnded => flow.files_processed + flow.files_failed = flow.files
====
